---- MODULE Spec2Model ----
(***************************************************************************)
(* Model of simple_server.py: the port search of find_free_port, the       *)
(* start-up and exception handling of main, and the request handling of    *)
(* CustomHTTPRequestHandler on top of socketserver.TCPServer and           *)
(* http.server.SimpleHTTPRequestHandler.                                   *)
(***************************************************************************)
EXTENDS Integers, Sequences, FiniteSets, TLC

\* ------------------------------------------------------------------ bounds
\* Number of clients that connect to the server during a run.
NumClients == 2

\* ------------------------------------------------------- program constants
\* main: find_free_port(8080)
DefaultStartPort == 8080
\* find_free_port: while port < start_port + 100
SearchWindow == 100
\* socket.bind: "bind(): port must be 0-65535", an OverflowError beyond it
MaxPort == (2 ^ 16) - 1

\* Start ports given to find_free_port when it is examined on its own: the
\* one main uses, the highest one whose whole window is made of real ports,
\* and one whose window runs past the last port.
StartPorts == {DefaultStartPort, MaxPort - SearchWindow + 1, MaxPort - 35}

Clients == 1 .. NumClients

VARIABLES
    pc,           \* position of the process: "find", "bind", "serving", "except", "exited"
    start_port,   \* find_free_port's parameter
    port,         \* find_free_port's local, then main's port
    failed,       \* ports whose probe raised OSError in this search
    result,       \* {} until find_free_port returns, then {returned port}
    raised,       \* the exception propagating out of the try block, or "none"
    exit_status,  \* {} while the process runs, then {0} or {1}
    occupied,     \* ports on which a bind by this process fails (held by others)
    bound,        \* ports this process holds a bound socket on
    client,       \* client -> "idle", "queued", "handling", "closed"
    backlog,      \* connections accepted by the kernel, waiting for accept()
    handling,     \* clients whose request handler is running
    last          \* the most recent request handled and what the server did

vars == <<pc, start_port, port, failed, result, raised, exit_status, occupied,
          bound, client, backlog, handling, last>>

findVars == <<start_port, port, failed, result>>
connVars == <<client, backlog, handling, last>>

\* ------------------------------------------------------------ str helpers
\* str.endswith
EndsWith(s, suffix) ==
    /\ Len(s) >= Len(suffix)
    /\ SubSeq(s, Len(s) - Len(suffix) + 1, Len(s)) = suffix

\* positions of the characters of s that are in chars
Positions(s, chars) == {i \in 1 .. Len(s) : SubSeq(s, i, i) \in chars}

SetMin(S) == CHOOSE x \in S : \A y \in S : x <= y
SetMax(S) == CHOOSE x \in S : \A y \in S : x >= y

\* s.split(c, 1)[0] for each c of chars in turn: s up to the first of them
CutAt(s, chars) ==
    IF Positions(s, chars) = {} THEN s
    ELSE SubSeq(s, 1, SetMin(Positions(s, chars)) - 1)

\* An absent value (Python's None, a header that was not sent) is the empty
\* set and a present value v is {v}.
NoGuess == [called |-> FALSE, path |-> "", base |-> "", raised |-> "none", value |-> {}]

Exchange(url, fs, outcome, status, location, ctype, body, via, guess) ==
    [url |-> url, fs |-> fs, outcome |-> outcome, status |-> status,
     location |-> location, ctype |-> ctype, body |-> body, via |-> via,
     guess |-> guess]

\* no request has been handled yet
NoExchange == Exchange("", "none", "none", {}, {}, {}, "none", "none", NoGuess)

\* ---------------------------------------------------------------- Init
InitCommon ==
    /\ pc = "find"
    /\ failed = {}
    /\ result = {}
    /\ raised = "none"
    /\ exit_status = {}
    /\ occupied = {}
    /\ bound = {}
    /\ client = [c \in Clients |-> "idle"]
    /\ backlog = <<>>
    /\ handling = {}
    /\ last = NoExchange

\* main: port = find_free_port(8080)
Init ==
    /\ start_port = DefaultStartPort
    /\ port = start_port
    /\ InitCommon

\* find_free_port(start_port) called with any of StartPorts
InitFind ==
    /\ start_port \in StartPorts
    /\ port = start_port
    /\ InitCommon

\* ------------------------------------------------------- the environment
\* Another process binds the port this process is about to bind: the one
\* the search probes next, or the selected one before the listener is bound.
OtherProcessBinds ==
    /\ pc \in {"find", "bind"}
    /\ port <= MaxPort
    /\ port \notin occupied
    /\ port \notin bound
    /\ occupied' = occupied \cup {port}
    /\ UNCHANGED <<pc, findVars, raised, exit_status, bound, connVars>>

\* --------------------------------------------------------- find_free_port
\* while port < start_port + 100
InWindow_offbyone(p, start) == p <= start + SearchWindow
InWindow(p, start) == p < start + SearchWindow

\* port += 1
NextPort_skip(p) == p + 2
NextPort(p) == p + 1

\* s.bind(('', port)): the outcome of binding port p
BindOutcome(p) ==
    IF p > MaxPort \/ p < 0 THEN "OverflowError"
    ELSE IF p \in occupied \/ p \in bound THEN "OSError"
    ELSE "ok"

\* One iteration of the loop: create a socket, bind it, and either return the
\* port (the with-statement closes the socket on the way out) or count the
\* failure and move on; an exception that is no OSError leaves the function.
Probe ==
    /\ pc = "find"
    /\ InWindow(port, start_port)
    /\ LET outcome == BindOutcome(port) IN
         CASE outcome = "ok" ->
                /\ result' = {port}
                /\ pc' = "bind"
                /\ UNCHANGED <<port, failed, raised>>
           [] outcome = "OSError" ->
                /\ failed' = failed \cup {port}
                /\ port' = NextPort(port)
                /\ UNCHANGED <<pc, result, raised>>
           [] OTHER ->
                /\ raised' = outcome
                /\ pc' = "except"
                /\ UNCHANGED <<port, failed, result>>
    /\ UNCHANGED <<start_port, exit_status, occupied, bound, connVars>>

\* raise RuntimeError("Could not find a free port")
RaiseNoFreePort ==
    /\ pc = "find"
    /\ ~InWindow(port, start_port)
    /\ raised' = "RuntimeError"
    /\ pc' = "except"
    /\ UNCHANGED <<findVars, exit_status, occupied, bound, connVars>>

\* ------------------------------------------------------------------ main
\* os.chdir(...); with socketserver.TCPServer(("", port), Handler) as httpd:
\* the constructor binds and listens, and its OSError leaves the try block.
\* Nothing in main goes back to the port search.
StartServer_retry ==
    /\ pc = "bind"
    /\ LET outcome == BindOutcome(port) IN
         CASE outcome = "ok" ->
                /\ bound' = {port}
                /\ pc' = "serving"
                /\ UNCHANGED <<raised, port, result>>
           [] OTHER ->
                /\ port' = NextPort(port)
                /\ result' = {}
                /\ pc' = "find"
                /\ UNCHANGED <<bound, raised>>
    /\ UNCHANGED <<start_port, failed, exit_status, occupied, connVars>>

StartServer ==
    /\ pc = "bind"
    /\ LET outcome == BindOutcome(port) IN
         CASE outcome = "ok" ->
                /\ bound' = {port}
                /\ pc' = "serving"
                /\ UNCHANGED raised
           [] OTHER ->
                /\ raised' = outcome
                /\ pc' = "except"
                /\ UNCHANGED bound
    /\ UNCHANGED <<findVars, exit_status, occupied, connVars>>

\* Ctrl+C: KeyboardInterrupt is raised in the main thread wherever it is
\* inside the try block. Unwinding leaves the with-block, which closes the
\* listening socket, and any connection open or waiting is dropped.
KeyboardInterrupt ==
    /\ pc \in {"find", "bind", "serving"}
    /\ raised' = "KeyboardInterrupt"
    /\ pc' = "except"
    /\ bound' = {}
    /\ client' = [c \in Clients |->
                    IF client[c] \in {"queued", "handling"} THEN "closed" ELSE client[c]]
    /\ backlog' = <<>>
    /\ handling' = {}
    /\ UNCHANGED <<findVars, exit_status, occupied, last>>

\* except KeyboardInterrupt: print, fall off the end of main (status 0)
\* except Exception as e:   print, sys.exit(1)
ExitStatusFor_allzero(exc) == 0
ExitStatusFor(exc) == IF exc = "KeyboardInterrupt" THEN 0 ELSE 1

MainExcept ==
    /\ pc = "except"
    /\ exit_status' = {ExitStatusFor(raised)}
    /\ pc' = "exited"
    /\ UNCHANGED <<findVars, raised, occupied, bound, connVars>>

\* ------------------------------------------------ the platform's guesser
\* posixpath.splitext(p)[1]
SplitExt(p) ==
    LET seps == Positions(p, {"/"})
        dots == Positions(p, {"."})
        sepIndex == IF seps = {} THEN 0 ELSE SetMax(seps)
        dotIndex == IF dots = {} THEN 0 ELSE SetMax(dots)
    IN  IF /\ dotIndex > sepIndex
           /\ \E i \in (sepIndex + 1) .. (dotIndex - 1) : SubSeq(p, i, i) # "."
        THEN SubSeq(p, dotIndex, Len(p))
        ELSE ""

LowerChar(c) ==
    CASE c = "A" -> "a" [] c = "B" -> "b" [] c = "C" -> "c" [] c = "D" -> "d"
      [] c = "E" -> "e" [] c = "F" -> "f" [] c = "G" -> "g" [] c = "H" -> "h"
      [] c = "I" -> "i" [] c = "J" -> "j" [] c = "K" -> "k" [] c = "L" -> "l"
      [] c = "M" -> "m" [] c = "N" -> "n" [] c = "O" -> "o" [] c = "P" -> "p"
      [] c = "Q" -> "q" [] c = "R" -> "r" [] c = "S" -> "s" [] c = "T" -> "t"
      [] c = "U" -> "u" [] c = "V" -> "v" [] c = "W" -> "w" [] c = "X" -> "x"
      [] c = "Y" -> "y" [] c = "Z" -> "z" [] OTHER -> c

\* str.lower
RECURSIVE Lower(_)
Lower(s) ==
    IF Len(s) = 0 THEN ""
    ELSE LowerChar(SubSeq(s, 1, 1)) \o Lower(SubSeq(s, 2, Len(s)))

\* SimpleHTTPRequestHandler.extensions_map
ExtensionsMap(ext) ==
    CASE ext = ".gz"  -> {"application/gzip"}
      [] ext = ".Z"   -> {"application/octet-stream"}
      [] ext = ".bz2" -> {"application/x-bzip2"}
      [] ext = ".xz"  -> {"application/x-xz"}
      [] OTHER        -> {}

\* mimetypes.guess_type(path)[0]: the table is the platform's (the built-in
\* one, the system's mime.types files, the registry), so an extension may have
\* more than one possible answer, or none ({}).
MimetypesGuess(ext) ==
    CASE ext = ".html" -> {"text/html"}
      [] ext = ".css"  -> {"text/css"}
      [] ext = ".json" -> {"application/json"}
      [] ext = ".svg"  -> {"image/svg+xml"}
      [] ext = ".ico"  -> {"image/vnd.microsoft.icon"}
      [] ext = ".js"   -> {"text/javascript", "application/javascript"}
      [] ext = ".ts"   -> {"video/mp2t"}
      [] ext = ".txt"  -> {"text/plain"}
      [] OTHER         -> {}

\* The values SimpleHTTPRequestHandler.guess_type(path) may return: a string
\* of the form type/subtype, never a pair.
BaseGuessTypes(path) ==
    LET ext == SplitExt(path) IN
    IF ExtensionsMap(ext) # {} THEN ExtensionsMap(ext)
    ELSE IF ExtensionsMap(Lower(ext)) # {} THEN ExtensionsMap(Lower(ext))
    ELSE MimetypesGuess(Lower(ext)) \cup
           (IF Lower(ext) \in {".html", ".css", ".json", ".svg", ".ico", ".js", ".txt"}
            THEN {} ELSE {"application/octet-stream"})

\* a, b = v for a str v: one character each when v has exactly two, else
\* ValueError ("too many values to unpack", "not enough values to unpack")
Unpack2(v) ==
    IF Len(v) = 2
    THEN [raised |-> "none", a |-> SubSeq(v, 1, 1), b |-> SubSeq(v, 2, 2)]
    ELSE [raised |-> "ValueError", a |-> "", b |-> ""]

\* ------------------------------------------- CustomHTTPRequestHandler
\* the chain of endswith tests of guess_type
OverrideType(path) ==
    IF EndsWith(path, ".tsx") \/ EndsWith(path, ".ts") THEN {"application/javascript"}
    ELSE IF EndsWith(path, ".jsx") \/ EndsWith(path, ".js") THEN {"application/javascript"}
    ELSE IF EndsWith(path, ".json") THEN {"application/json"}
    ELSE IF EndsWith(path, ".css") THEN {"text/css"}
    ELSE IF EndsWith(path, ".html") THEN {"text/html"}
    ELSE IF EndsWith(path, ".svg") THEN {"image/svg+xml"}
    ELSE IF EndsWith(path, ".ico") THEN {"image/x-icon"}
    ELSE {}

\* guess_type(path), base being what super().guess_type(path) returned
GuessType(path, base) ==
    LET u == Unpack2(base) IN
    IF u.raised # "none"
    THEN [called |-> TRUE, path |-> path, base |-> base, raised |-> u.raised,
          value |-> {}]
    ELSE LET mimetype == u.a
             encoding == u.b
         IN  [called |-> TRUE, path |-> path, base |-> base, raised |-> "none",
              value |-> IF OverrideType(path) # {}
                        THEN {<<t, encoding>> : t \in OverrideType(path)}
                        ELSE {<<mimetype, encoding>>}]

\* urlparse(self.path).path for a request target in origin form: the
\* fragment and the query are cut off, then the parameters of the last
\* path segment (urllib.parse._splitparams).
UrlParsePath(url) ==
    LET p == CutAt(CutAt(url, {"#"}), {"?"})
        seps == Positions(p, {"/"})
        lastSep == IF seps = {} THEN 0 ELSE SetMax(seps)
        semis == {i \in Positions(p, {";"}) : i > lastSep}
    IN  IF semis = {} THEN p ELSE SubSeq(p, 1, SetMin(semis) - 1)

\* urllib.parse.urlsplit(self.path).path: as above, parameters kept
UrlSplitPath(url) == CutAt(CutAt(url, {"#"}), {"?"})

\* SimpleHTTPRequestHandler.translate_path(self.path), relative to the
\* working directory, for targets without escapes and dot segments
TranslatePath(url) == CutAt(CutAt(url, {"?"}), {"#"})

\* What the working directory holds at a translated path when the request is
\* handled: a regular file, nothing, a directory without an index file, or a
\* directory with index.html.
FsKinds == {"file", "missing", "dir", "dir_index"}

\* SimpleHTTPRequestHandler.send_head followed by copyfile (do_GET of the
\* base class); base is what the platform's guesser answers for the file.
SimpleDoGET(url, fs, base) ==
    LET path == TranslatePath(url)
        isdir == fs \in {"dir", "dir_index"}
        fpath == IF fs = "dir_index"
                 THEN (IF EndsWith(path, "/") THEN path ELSE path \o "/") \o "index.html"
                 ELSE path
        g == GuessType(fpath, base)
    IN  IF isdir /\ ~EndsWith(UrlSplitPath(url), "/")
        THEN Exchange(url, fs, "response", {301}, {UrlSplitPath(url) \o "/"}, {},
                      "empty", "default", NoGuess)
        ELSE IF fs = "dir"
        THEN Exchange(url, fs, "response", {200}, {}, {"text/html; charset=utf-8"},
                      "listing", "default", NoGuess)
        ELSE IF g.raised # "none"
        THEN \* the exception leaves the handler: nothing is sent
             Exchange(url, fs, "fault", {}, {}, {}, "none", "default", g)
        ELSE IF EndsWith(fpath, "/") \/ fs = "missing"
        THEN Exchange(url, fs, "response", {404}, {}, {"text/html;charset=utf-8"},
                      "error_page", "default", g)
        ELSE Exchange(url, fs, "response", {200}, {}, g.value, "file", "default", g)

\* if parsed_path.path == '/'
IsRootPath_anydir(p) == EndsWith(p, "/")
IsRootPath(p) == p = "/"

\* if parsed_path.path == '/favicon.ico'
IsFaviconPath_never(p) == FALSE
IsFaviconPath(p) == p = "/favicon.ico"

\* CustomHTTPRequestHandler.do_GET
DoGET(url, fs, base) ==
    LET parsed_path == UrlParsePath(url) IN
    IF IsRootPath(parsed_path)
    THEN Exchange(url, fs, "response", {302}, {"/index-standalone.html"}, {},
                  "empty", "root_redirect", NoGuess)
    ELSE IF IsFaviconPath(parsed_path)
    THEN Exchange(url, fs, "response", {404}, {}, {}, "empty", "favicon", NoGuess)
    ELSE SimpleDoGET(url, fs, base)

\* ------------------------------------------------------ the server loop
\* Request targets of the GET requests clients send.
RequestTargets ==
    {"/", "/?tab=train", "/favicon.ico", "/index-standalone.html", "/app.tsx",
     "/src/util.ts", "/main.js", "/data.json", "/style.css", "/logo.svg",
     "/does-not-exist.xyz", "/assets", "/assets/"}

\* what may be found in the working directory for a target
FsKindsOf(url) ==
    IF UrlParsePath(url) = "/" THEN {"dir", "dir_index"}
    ELSE IF SplitExt(TranslatePath(url)) = "" THEN {"dir", "dir_index", "missing"}
    ELSE {"file", "missing"}

\* A client connects: the kernel completes the handshake on the listening
\* socket and queues the connection.
Connect(c) ==
    /\ pc = "serving"
    /\ bound # {}
    /\ client[c] = "idle"
    /\ client' = [client EXCEPT ![c] = "queued"]
    /\ backlog' = Append(backlog, c)
    /\ UNCHANGED <<pc, findVars, raised, exit_status, occupied, bound, handling, last>>

\* socketserver.TCPServer is not a ThreadingMixIn/ForkingMixIn server:
\* serve_forever calls process_request -> finish_request in the loop's own
\* thread, so the next accept() happens only after the handler has returned.
CanAccept_threaded == TRUE
CanAccept == handling = {}

\* serve_forever: _handle_request_noblock -> get_request (accept) and the
\* handler is constructed; it then blocks reading the request from the socket.
Accept ==
    /\ pc = "serving"
    /\ backlog # <<>>
    /\ CanAccept
    /\ handling' = handling \cup {Head(backlog)}
    /\ client' = [client EXCEPT ![Head(backlog)] = "handling"]
    /\ backlog' = Tail(backlog)
    /\ UNCHANGED <<pc, findVars, raised, exit_status, occupied, bound, last>>

\* The client's GET request arrives and the handler runs to its end. An
\* exception that leaves the handler is caught by the loop
\* (_handle_request_noblock: except Exception -> handle_error, which prints
\* the traceback, then shutdown_request); either way the connection is closed
\* (HTTP/1.0) and the loop goes on.
HandleRequest(c, url, fs, base) ==
    /\ pc = "serving"
    /\ c \in handling
    /\ last' = DoGET(url, fs, base)
    /\ client' = [client EXCEPT ![c] = "closed"]
    /\ handling' = handling \ {c}
    /\ UNCHANGED <<pc, findVars, raised, exit_status, occupied, bound, backlog>>

Next ==
    \/ OtherProcessBinds
    \/ Probe
    \/ RaiseNoFreePort
    \/ StartServer
    \/ KeyboardInterrupt
    \/ MainExcept
    \/ \E c \in Clients : Connect(c)
    \/ Accept
    \/ \E c \in Clients, url \in RequestTargets :
         \E fs \in FsKindsOf(url) :
           \E base \in BaseGuessTypes(TranslatePath(url)) :
             HandleRequest(c, url, fs, base)

Spec == Init /\ [][Next]_vars

NextFind == OtherProcessBinds \/ Probe \/ RaiseNoFreePort

FindSpec == InitFind /\ [][NextFind]_vars
\* ================================================================ claims
Window == start_port .. (start_port + SearchWindow - 1)

\* C1: when find_free_port returns, it returns the lowest free port of the
\* window start..start+99: the port is in the window, its own probe did not
\* fail, every lower port of the window was probed and failed (and was
\* occupied), the port was bindable when probed, and a probe that finds its
\* port free returns that very port.
C1_ReturnsLowestFreePort ==
    /\ [](\A p \in result :
            /\ p \in Window
            /\ p \notin failed
            /\ \A q \in start_port .. (p - 1) : q \in failed)
    /\ [](failed \subseteq occupied)
    /\ [][result' # result => port \notin occupied /\ result' = {port}]_vars
    /\ [][(/\ pc = "find"
           /\ port \in Window
           /\ port <= MaxPort
           /\ port \notin occupied
           /\ (pc' # pc \/ port' # port)) => result' = {port}]_vars

\* the search returned the last candidate after 99 failed probes
C1_Witness ==
    /\ result = {start_port + SearchWindow - 1}
    /\ Cardinality(failed) = SearchWindow - 1

\* C2: when all 100 candidates are occupied the search ends with
\* RuntimeError after exactly 100 failed probes, no port at or beyond
\* start+100 is ever probed, and no port is returned.
C2_ExhaustionRaises ==
    /\ [](raised = "RuntimeError" =>
            /\ failed = Window
            /\ Cardinality(failed) = SearchWindow
            /\ result = {})
    /\ [](failed \cup result \subseteq Window)
    /\ [][(failed = Window /\ pc = "find" /\ pc' # pc) =>
            /\ raised' = "RuntimeError"
            /\ result' = {}
            /\ failed' = failed]_vars
    /\ [][raised = "RuntimeError" => result' = {} /\ failed' = failed]_vars

\* all 100 ports were found occupied and the error was raised
C2_Witness ==
    /\ raised = "RuntimeError"
    /\ Cardinality(failed) = SearchWindow
    /\ Window \subseteq occupied

\* The content types the override is documented to give, by suffix.
DocumentedContentType(path) ==
    IF \E e \in {".tsx", ".ts", ".jsx", ".js"} : EndsWith(path, e)
    THEN {"application/javascript"}
    ELSE IF EndsWith(path, ".json") THEN {"application/json"}
    ELSE IF EndsWith(path, ".css") THEN {"text/css"}
    ELSE IF EndsWith(path, ".html") THEN {"text/html"}
    ELSE IF EndsWith(path, ".svg") THEN {"image/svg+xml"}
    ELSE IF EndsWith(path, ".ico") THEN {"image/x-icon"}
    ELSE {}

\* C3: for a path with an extension of the override set, guess_type returns
\* the documented content type, whatever the platform's guesser answered.
C3_OverrideType ==
    (last.guess.called /\ DocumentedContentType(last.guess.path) # {}) =>
        /\ last.guess.raised = "none"
        /\ last.guess.value # {}
        /\ \A v \in last.guess.value : {v[1]} = DocumentedContentType(last.guess.path)

\* C4: for a path with an extension outside the override set, guess_type
\* returns exactly what the base handler's guess_type returned.
C4_PassThrough ==
    (last.guess.called /\ DocumentedContentType(last.guess.path) = {}) =>
        /\ last.guess.raised = "none"
        /\ last.guess.value = {last.guess.base}

\* C5: a GET whose path is / is answered by the redirect rule (302,
\* Location: /index-standalone.html) without default file serving, and a GET
\* with any other path is never answered by the redirect rule.
C5_RootRedirect ==
    last.outcome # "none" =>
        IF UrlParsePath(last.url) = "/"
        THEN /\ last.outcome = "response"
             /\ last.status = {302}
             /\ last.location = {"/index-standalone.html"}
             /\ last.via = "root_redirect"
             /\ ~last.guess.called
        ELSE /\ last.via # "root_redirect"
             /\ ~(last.status = {302} /\ last.location = {"/index-standalone.html"})

\* the root was requested while the directory holds an index.html
C5_Witness ==
    /\ last.url = "/"
    /\ last.fs = "dir_index"
    /\ last.status = {302}

\* C6: a GET of /favicon.ico is answered 404 with an empty body, whether or
\* not the file exists, without default file lookup.
C6_FaviconNotFound ==
    (last.outcome # "none" /\ UrlParsePath(last.url) = "/favicon.ico") =>
        /\ last.outcome = "response"
        /\ last.status = {404}
        /\ last.body = "empty"
        /\ last.via = "favicon"
        /\ ~last.guess.called

\* favicon.ico exists in the served directory and was requested
C6_Witness ==
    /\ last.url = "/favicon.ico"
    /\ last.fs = "file"
    /\ last.status = {404}

\* C7: a GET of any other path gets a response from default file serving:
\* 200 with the file and the content type of guess_type when the file
\* exists, 404 when it does not.
C7_DefaultServing ==
    (/\ last.outcome # "none"
     /\ UrlParsePath(last.url) \notin {"/", "/favicon.ico"}
     /\ last.fs \in {"file", "missing"}) =>
        /\ last.via = "default"
        /\ last.outcome = "response"
        /\ last.fs = "missing" => last.status = {404}
        /\ last.fs = "file" =>
              /\ last.status = {200}
              /\ last.body = "file"
              /\ last.ctype = IF DocumentedContentType(TranslatePath(last.url)) # {}
                              THEN DocumentedContentType(TranslatePath(last.url))
                              ELSE {last.guess.base}

C9_ProbeBindRace ==
    /\ [][result' # result => port \notin occupied /\ result' = {port}]_vars
    /\ [](pc = "bind" => bound = {} /\ result = {port})
    /\ [][(/\ pc = "bind"
           /\ port \in occupied
           /\ pc' # pc
           /\ raised' # "KeyboardInterrupt") =>
            /\ raised' = "OSError"
            /\ pc' = "except"
            /\ port' = port /\ failed' = failed /\ result' = result]_vars
    /\ [][raised = "OSError" =>
            /\ port' = port /\ failed' = failed /\ result' = result
            /\ raised' = raised
            /\ pc' \in {"except", "exited"}]_vars
    /\ [](raised = "OSError" /\ pc = "exited" => exit_status = {1})

\* the selected port was taken by another process before the listener's bind
C9_Witness ==
    /\ pc = "exited"
    /\ raised = "OSError"
    /\ exit_status = {1}
    /\ result = {port}
    /\ port \in occupied
    /\ port \notin failed

\* C10: at most one connection is being handled at any time, and the
\* handling of a request starts only when no other request is being
\* handled, so a request that never completes keeps every later one waiting.
C10_OneAtATime ==
    /\ [](Cardinality(handling) <= 1)
    /\ [](\A c \in Clients : client[c] = "handling" <=> c \in handling)
    /\ [][(\E c \in handling' : c \notin handling) => handling = {}]_vars
    /\ [][(handling # {} /\ backlog # <<>> /\ handling' = handling) =>
            \A c \in Clients : client[c] = "queued" => client'[c] = "queued"]_vars

\* one request is being handled while every other client waits in the queue
C10_Witness ==
    /\ Cardinality(handling) = 1
    /\ \A c \in Clients \ handling : client[c] = "queued"
    /\ Len(backlog) = NumClients - 1

====
